---------------------------- MODULE Spec2Model ----------------------------
(***************************************************************************)
(* Model of cmd/puppeth/genesis.go: the three builders that convert a      *)
(* go-ethereum genesis block (core.Genesis) into the chain specification   *)
(* formats of Aleth (newAlethGenesisSpec), Parity (newParityChainSpec) and *)
(* PyEthereum (newPyEthereumGenesisSpec).                                  *)
(*                                                                         *)
(* Representation of Go values:                                            *)
(*   - a pointer (a big.Int, a builtin, a returned spec) or an error is a  *)
(*     sequence: <<>> is nil, <<v>> points at v;                           *)
(*   - a Go map is a record [made, m]: made = FALSE is the nil map, m the  *)
(*     function from keys to values;                                       *)
(*   - an address or a hash is the number its bytes spell (big-endian);    *)
(*   - text (string) built by the code is a sequence of characters;        *)
(*   - a call that dereferences a nil pointer panics: its outcome has      *)
(*     panic = TRUE and returns neither a spec nor an error.               *)
(*                                                                         *)
(* Two specifications: Spec runs whole builder calls one after another on  *)
(* one genesis (last is the latest call); StepSpec runs several calls on   *)
(* one genesis interleaved, one account or precompile write at a time      *)
(* (calls is each call's progress, objects the spec each call builds).     *)
(***************************************************************************)
EXTENDS Integers, Sequences, FiniteSets, TLC

VARIABLES genesisBlock, last, calls, objects

vars == <<genesisBlock, last, calls, objects>>

----------------------------------------------------------------------------
(* Bounds of the model *)

\* Largest activation block of Byzantium, Constantinople and Istanbul.
MaxBlock == 1

\* Largest activation block of Homestead, EIP150, EIP155, EIP158, Petersburg.
MaxEarlyBlock == 0

\* Largest number of entries of the allocation table.
MaxAlloc == 2

\* Number of builder calls that run interleaved.
MaxCalls == 2

----------------------------------------------------------------------------
(* Go values *)

Nil == <<>>

Ptr(v) == <<v>>

Deref(p) == p[1]

\* big.Int.Uint64(): the low 64 bits of the absolute value. Every value
\* of the model is below 2^31, where the low 64 bits are the absolute value.
Uint64(x) == IF x < 0 THEN 0 - x ELSE x

NilMap == [made |-> FALSE, m |-> <<>>]

MakeMap == [made |-> TRUE, m |-> <<>>]

MapKeys(mp) == DOMAIN mp.m

\* mp[k] = v on a made map.
MapPut(mp, k, v) ==
  [made |-> TRUE,
   m |-> [x \in (DOMAIN mp.m) \cup {k} |-> IF x = k THEN v ELSE mp.m[x]]]

HexChars == <<"0", "1", "2", "3", "4", "5", "6", "7",
              "8", "9", "a", "b", "c", "d", "e", "f">>

RECURSIVE HexDigits(_)
HexDigits(n) ==
  IF n < 16 THEN <<HexChars[n + 1]>>
  ELSE Append(HexDigits(n \div 16), HexChars[(n % 16) + 1])

\* common.EncodeUint64: "0x" and the hexadecimal digits, no leading zero.
EncodeUint64(n) == <<"0", "x">> \o HexDigits(n)

\* common.EncodeBig: the same text, with a leading "-" for a negative number.
EncodeBig(n) ==
  IF n < 0 THEN <<"-", "0", "x">> \o HexDigits(0 - n)
  ELSE <<"0", "x">> \o HexDigits(n)

RECURSIVE BytesValue(_)
BytesValue(b) ==
  IF Len(b) = 0 THEN 0
  ELSE 256 * BytesValue(SubSeq(b, 1, Len(b) - 1)) + b[Len(b)]

\* common.BytesToAddress: the last 20 bytes, left-padded with zeros.
BytesToAddress(b) ==
  BytesValue(IF Len(b) > 20 THEN SubSeq(b, Len(b) - 19, Len(b)) ELSE b)

RECURSIVE BigEndian(_, _)
BigEndian(n, width) ==
  IF width = 0 THEN <<>>
  ELSE Append(BigEndian(n \div 256, width - 1), n % 256)

\* types.EncodeNonce: the 8 bytes of the nonce, big-endian.
EncodeNonce(n) == BigEndian(n, 8)

UpperChars == <<"A", "B", "C", "D", "E", "F", "G", "H", "I", "J", "K", "L", "M",
                "N", "O", "P", "Q", "R", "S", "T", "U", "V", "W", "X", "Y", "Z">>

LowerChars == <<"a", "b", "c", "d", "e", "f", "g", "h", "i", "j", "k", "l", "m",
                "n", "o", "p", "q", "r", "s", "t", "u", "v", "w", "x", "y", "z">>

\* strings.ToLower on ASCII text.
ToLower(s) ==
  [i \in DOMAIN s |->
     IF \E j \in DOMAIN UpperChars : UpperChars[j] = s[i]
     THEN LowerChars[CHOOSE j \in DOMAIN UpperChars : UpperChars[j] = s[i]]
     ELSE s[i]]

----------------------------------------------------------------------------
(* Outcomes of a builder call: (spec, nil), (nil, err) or a panic *)

ErrUnsupportedEngine == "unsupported consensus engine"

ErrIstanbulWithoutByzantium ==
  "invalid genesis, istanbul fork is enabled while byzantium is not"

ReturnSpec(spec) == [spec |-> Ptr(spec), err |-> Nil, panic |-> FALSE]

ReturnErr(msg) == [spec |-> Nil, err |-> Ptr(msg), panic |-> FALSE]

NilDereference == [spec |-> Nil, err |-> Nil, panic |-> TRUE]

\* A builder whose engine test is missing.
UnsupportedEngineNeverTested(genesis) == FALSE

\* "genesis.Config.Ethash == nil", the first statement of each builder.
UnsupportedEngine(genesis) == genesis.Config.Ethash = Nil

----------------------------------------------------------------------------
(* The genesis block handed to the builders (core.Genesis and its          *)
(* params.ChainConfig): the engine tag, the chain id, the fork schedule    *)
(* with one optional block number per fork, the header fields and the      *)
(* allocation table. The chain id and the balances are values the genesis  *)
(* always carries; only the fork blocks and the engine may be nil.         *)

EarlyBlocks == {Nil} \cup {Ptr(n) : n \in 0..MaxEarlyBlock}

MajorBlocks == {Nil} \cup {Ptr(n) : n \in 0..MaxBlock}

ChainConfigs ==
  [Ethash : {Nil, Ptr("EthashConfig")},
   ChainID : {Ptr(1234)},
   HomesteadBlock : EarlyBlocks,
   EIP150Block : EarlyBlocks,
   EIP155Block : EarlyBlocks,
   EIP158Block : EarlyBlocks,
   ByzantiumBlock : MajorBlocks,
   ConstantinopleBlock : MajorBlocks,
   PetersburgBlock : EarlyBlocks,
   IstanbulBlock : MajorBlocks]

\* Addresses the allocation table may fund: two precompile addresses (0x01
\* and 0x06) and 0x0101, an ordinary address whose last byte is 0x01.
AllocAddresses == {1, 6, 257}

\* core.GenesisAccount of a funded address.
GenesisAccount(a) ==
  IF a = 1 THEN [Balance |-> Ptr(100), Nonce |-> 0]
  ELSE IF a = 6 THEN [Balance |-> Ptr(7), Nonce |-> 1]
  ELSE [Balance |-> Ptr(250), Nonce |-> 2]

GenesisAllocs ==
  {[a \in S |-> GenesisAccount(a)] :
     S \in {T \in SUBSET AllocAddresses : Cardinality(T) <= MaxAlloc}}

\* Header fields of the genesis block.
Headers ==
  {[Nonce |-> 258, Timestamp |-> 1500000000, ExtraData |-> <<17, 187>>,
    GasLimit |-> 4700000, Difficulty |-> Ptr(524288), Mixhash |-> 43,
    Coinbase |-> 257, ParentHash |-> 9]}

Geneses ==
  {[Config |-> c, Nonce |-> h.Nonce, Timestamp |-> h.Timestamp,
    ExtraData |-> h.ExtraData, GasLimit |-> h.GasLimit,
    Difficulty |-> h.Difficulty, Mixhash |-> h.Mixhash,
    Coinbase |-> h.Coinbase, Alloc |-> al, ParentHash |-> h.ParentHash] :
     c \in ChainConfigs, h \in Headers, al \in GenesisAllocs}

\* The orders in which "range genesis.Alloc" may visit the table: Go leaves
\* the iteration order of a map unspecified.
RangeOrders(alloc) ==
  {o \in [1..Cardinality(DOMAIN alloc) -> DOMAIN alloc] :
     \A i, j \in DOMAIN o : i # j => o[i] # o[j]}

\* Network names and bootnode lists a caller passes.
Networks == {<<"M", "y", "N", "e", "t">>}

BootnodeLists == {<<"enode://a@10.0.0.1:30303">>}

----------------------------------------------------------------------------
(* Format A: Aleth (cpp-ethereum) *)

\* Protocol constants of other packages, read and copied by the builders.
MaximumExtraDataSize == "params.MaximumExtraDataSize"
MinGasLimit == "params.MinGasLimit"
MinimumDifficulty == "params.MinimumDifficulty"
DifficultyBoundDivisor == "params.DifficultyBoundDivisor"
GasLimitBoundDivisor == "params.GasLimitBoundDivisor"
DurationLimit == "params.DurationLimit"
MaxCodeSize == "params.MaxCodeSize"
FrontierBlockReward == "ethash.FrontierBlockReward"
ByzantiumBlockReward == "ethash.ByzantiumBlockReward"
ConstantinopleBlockReward == "ethash.ConstantinopleBlockReward"

\* Another sentinel: math.MaxUint64 = 2^64 - 1, sixteen digits f.
MaxUint64Sentinel == [i \in 1..16 |-> 15]

\* math.MaxInt64 = 2^63 - 1 as its 16 hexadecimal digits, 7fffffffffffffff
\* (the number is beyond the integers TLC computes with).
MaxInt64 == <<7>> \o [i \in 1..15 |-> 15]

\* &alethGenesisSpecAccount{}
ZeroAlethAccount == [Balance |-> Nil, Nonce |-> 0, Precompiled |-> Nil]

\* A setPrecompile that leaves the definition an address already has.
alethGenesisSpec_setPrecompileKeepsFirst(spec, address, data) ==
  LET made == IF spec.Accounts.made THEN spec.Accounts ELSE MakeMap
      addr == BytesToAddress(<<address>>)
      have == IF addr \in MapKeys(made) THEN made
              ELSE MapPut(made, addr, ZeroAlethAccount)
  IN  [spec EXCEPT !.Accounts =
         IF have.m[addr].Precompiled # Nil THEN have
         ELSE MapPut(have, addr, [have.m[addr] EXCEPT !.Precompiled = data])]

\* A setPrecompile that makes the account map anew on every call.
alethGenesisSpec_setPrecompileRemakesMap(spec, address, data) ==
  LET addr == BytesToAddress(<<address>>)
  IN  [spec EXCEPT !.Accounts =
         MapPut(MakeMap, addr, [ZeroAlethAccount EXCEPT !.Precompiled = data])]

alethGenesisSpec_setPrecompile(spec, address, data) ==
  LET made == IF spec.Accounts.made THEN spec.Accounts ELSE MakeMap
      addr == BytesToAddress(<<address>>)
      have == IF addr \in MapKeys(made) THEN made
              ELSE MapPut(made, addr, ZeroAlethAccount)
  IN  [spec EXCEPT !.Accounts =
         MapPut(have, addr, [have.m[addr] EXCEPT !.Precompiled = data])]

\* A setAccount that keys the account by the last byte of the address, the
\* way setPrecompile builds its key.
alethGenesisSpec_setAccountLastByte(spec, address, account) ==
  LET made == IF spec.Accounts.made THEN spec.Accounts ELSE MakeMap
      addr == BytesToAddress(<<address % 256>>)
      have == IF addr \in MapKeys(made) THEN made
              ELSE MapPut(made, addr, ZeroAlethAccount)
  IN  [spec EXCEPT !.Accounts =
         MapPut(have, addr,
                [have.m[addr] EXCEPT !.Balance = account.Balance,
                                     !.Nonce = account.Nonce])]

alethGenesisSpec_setAccount(spec, address, account) ==
  LET made == IF spec.Accounts.made THEN spec.Accounts ELSE MakeMap
      have == IF address \in MapKeys(made) THEN made
              ELSE MapPut(made, address, ZeroAlethAccount)
  IN  [spec EXCEPT !.Accounts =
         MapPut(have, address,
                [have.m[address] EXCEPT !.Balance = account.Balance,
                                        !.Nonce = account.Nonce])]

\* Defaults that take the DAO fork block of the main network.
AlethDefaultsMainnetDao ==
  [AccountStartNonce |-> 0, TieBreakingGas |-> FALSE,
   AllowFutureBlocks |-> FALSE, DaoHardforkBlock |-> 1920000]

\* Lines 106-114: the defaults and the DAO fork block, set from literals.
AlethDefaults ==
  [AccountStartNonce |-> 0, TieBreakingGas |-> FALSE,
   AllowFutureBlocks |-> FALSE, DaoHardforkBlock |-> 0]

\* Lines 103-155: the spec before any account is written.
AlethHeader(genesis) ==
  [SealEngine |-> "Ethash",
   Params |->
     [AccountStartNonce |-> AlethDefaults.AccountStartNonce,
      TieBreakingGas |-> AlethDefaults.TieBreakingGas,
      AllowFutureBlocks |-> AlethDefaults.AllowFutureBlocks,
      DaoHardforkBlock |-> AlethDefaults.DaoHardforkBlock,
      HomesteadForkBlock |-> genesis.Config.HomesteadBlock,
      EIP150ForkBlock |-> genesis.Config.EIP150Block,
      EIP158ForkBlock |-> genesis.Config.EIP158Block,
      ByzantiumForkBlock |-> genesis.Config.ByzantiumBlock,
      ConstantinopleForkBlock |-> genesis.Config.ConstantinopleBlock,
      ConstantinopleFixForkBlock |-> genesis.Config.PetersburgBlock,
      IstanbulForkBlock |-> genesis.Config.IstanbulBlock,
      NetworkID |-> Uint64(Deref(genesis.Config.ChainID)),
      ChainID |-> Uint64(Deref(genesis.Config.ChainID)),
      MaximumExtraDataSize |-> MaximumExtraDataSize,
      MinGasLimit |-> MinGasLimit,
      MaxGasLimit |-> MaxInt64,
      MinimumDifficulty |-> MinimumDifficulty,
      DifficultyBoundDivisor |-> DifficultyBoundDivisor,
      GasLimitBoundDivisor |-> GasLimitBoundDivisor,
      DurationLimit |-> DurationLimit,
      BlockReward |-> FrontierBlockReward],
   Genesis |->
     [Nonce |-> EncodeNonce(genesis.Nonce),
      MixHash |-> genesis.Mixhash,
      Difficulty |-> genesis.Difficulty,
      Author |-> genesis.Coinbase,
      Timestamp |-> genesis.Timestamp,
      ParentHash |-> genesis.ParentHash,
      ExtraData |-> genesis.ExtraData,
      GasLimit |-> genesis.GasLimit],
   Accounts |-> NilMap]

\* Lines 157-159: setAccount for every entry, in the order the range visits.
RECURSIVE AlethRangeAlloc(_, _, _)
AlethRangeAlloc(spec, alloc, order) ==
  IF order = <<>> THEN spec
  ELSE AlethRangeAlloc(
         alethGenesisSpec_setAccount(spec, Head(order), alloc[Head(order)]),
         alloc, Tail(order))

AlethLinear(base, word) == Ptr([Base |-> base, Word |-> word])

\* Lines 161-168: the writes made whatever the fork schedule is.
AlethFrontierPrecompiles ==
  << <<1, Ptr([Name |-> "ecrecover", StartingBlock |-> Nil,
               Linear |-> AlethLinear(3000, 0)])>>,
     <<2, Ptr([Name |-> "sha256", StartingBlock |-> Nil,
               Linear |-> AlethLinear(60, 12)])>>,
     <<3, Ptr([Name |-> "ripemd160", StartingBlock |-> Nil,
               Linear |-> AlethLinear(600, 120)])>>,
     <<4, Ptr([Name |-> "identity", StartingBlock |-> Nil,
               Linear |-> AlethLinear(15, 3)])>> >>

\* Lines 169-180: the writes of the Byzantium phase.
AlethByzantiumPrecompiles(genesis) ==
  << <<5, Ptr([Name |-> "modexp",
               StartingBlock |-> genesis.Config.ByzantiumBlock,
               Linear |-> Nil])>>,
     <<6, Ptr([Name |-> "alt_bn128_G1_add",
               StartingBlock |-> genesis.Config.ByzantiumBlock,
               Linear |-> AlethLinear(500, 0)])>>,
     <<7, Ptr([Name |-> "alt_bn128_G1_mul",
               StartingBlock |-> genesis.Config.ByzantiumBlock,
               Linear |-> AlethLinear(40000, 0)])>>,
     <<8, Ptr([Name |-> "alt_bn128_pairing_product",
               StartingBlock |-> genesis.Config.ByzantiumBlock,
               Linear |-> Nil])>> >>

\* An Istanbul phase that gates every contract at the Byzantium block.
AlethIstanbulPrecompilesAtByzantium(genesis) ==
  << <<6, Ptr([Name |-> "alt_bn128_G1_add",
               StartingBlock |-> genesis.Config.ByzantiumBlock,
               Linear |-> Nil])>>,
     <<7, Ptr([Name |-> "alt_bn128_G1_mul",
               StartingBlock |-> genesis.Config.ByzantiumBlock,
               Linear |-> Nil])>>,
     <<9, Ptr([Name |-> "blake2_compression",
               StartingBlock |-> genesis.Config.ByzantiumBlock,
               Linear |-> Nil])>> >>

\* Lines 185-196: the writes of the Istanbul phase.
AlethIstanbulPrecompiles(genesis) ==
  << <<6, Ptr([Name |-> "alt_bn128_G1_add",
               StartingBlock |-> genesis.Config.ByzantiumBlock,
               Linear |-> Nil])>>,
     <<7, Ptr([Name |-> "alt_bn128_G1_mul",
               StartingBlock |-> genesis.Config.ByzantiumBlock,
               Linear |-> Nil])>>,
     <<9, Ptr([Name |-> "blake2_compression",
               StartingBlock |-> genesis.Config.IstanbulBlock,
               Linear |-> Nil])>> >>

RECURSIVE AlethSetPrecompiles(_, _)
AlethSetPrecompiles(spec, writes) ==
  IF writes = <<>> THEN spec
  ELSE AlethSetPrecompiles(
         alethGenesisSpec_setPrecompile(spec, Head(writes)[1], Head(writes)[2]),
         Tail(writes))

\* newAlethGenesisSpec(network, genesis); order is the order in which the
\* range over genesis.Alloc visits the table in this call.
newAlethGenesisSpec(network, genesis, order) ==
  IF UnsupportedEngine(genesis) THEN ReturnErr(ErrUnsupportedEngine)
  ELSE IF genesis.Config.ChainID = Nil THEN NilDereference
  ELSE
    LET funded == AlethRangeAlloc(AlethHeader(genesis), genesis.Alloc, order)
        frontier == AlethSetPrecompiles(funded, AlethFrontierPrecompiles)
        byzantium ==
          IF genesis.Config.ByzantiumBlock # Nil
          THEN AlethSetPrecompiles(frontier, AlethByzantiumPrecompiles(genesis))
          ELSE frontier
    IN  IF genesis.Config.IstanbulBlock # Nil
        THEN IF genesis.Config.ByzantiumBlock = Nil
             THEN ReturnErr(ErrIstanbulWithoutByzantium)
             ELSE ReturnSpec(
                    AlethSetPrecompiles(byzantium, AlethIstanbulPrecompiles(genesis)))
        ELSE ReturnSpec(byzantium)

----------------------------------------------------------------------------
(* Format B: Parity *)

\* The text common.EncodeBig gives for a named protocol constant: "0x" and
\* the digits of the constant, whose value is set in another package.
EncodeBigConstant(c) == <<"0", "x", c>>

\* The zero value of parityChainSpec.
ZeroParityChainSpec ==
  [Name |-> <<>>,
   Datadir |-> <<>>,
   Engine |->
     [Ethash |->
        [Params |->
           [MinimumDifficulty |-> Nil,
            DifficultyBoundDivisor |-> Nil,
            DurationLimit |-> Nil,
            BlockReward |-> NilMap,
            DifficultyBombDelays |-> NilMap,
            HomesteadTransition |-> 0,
            EIP100bTransition |-> 0]]],
   Params |->
     [AccountStartNonce |-> 0,
      MaximumExtraDataSize |-> 0,
      MinGasLimit |-> 0,
      GasLimitBoundDivisor |-> 0,
      NetworkID |-> 0,
      ChainID |-> 0,
      MaxCodeSize |-> 0,
      MaxCodeSizeTransition |-> 0,
      EIP98Transition |-> 0,
      EIP150Transition |-> 0,
      EIP160Transition |-> 0,
      EIP161abcTransition |-> 0,
      EIP161dTransition |-> 0,
      EIP155Transition |-> 0,
      EIP140Transition |-> 0,
      EIP211Transition |-> 0,
      EIP214Transition |-> 0,
      EIP658Transition |-> 0,
      EIP145Transition |-> 0,
      EIP1014Transition |-> 0,
      EIP1052Transition |-> 0,
      EIP1283Transition |-> 0,
      EIP1283DisableTransition |-> 0,
      EIP1283ReenableTransition |-> 0,
      EIP1344Transition |-> 0,
      EIP1884Transition |-> 0,
      EIP2028Transition |-> 0],
   Genesis |->
     [Seal |-> [Ethereum |-> [Nonce |-> EncodeNonce(0), MixHash |-> Nil]],
      Difficulty |-> Nil,
      Author |-> 0,
      Timestamp |-> 0,
      ParentHash |-> 0,
      ExtraData |-> <<>>,
      GasLimit |-> 0],
   Nodes |-> Nil,
   Accounts |-> NilMap]

\* &parityChainSpecAccount{}
ZeroParityAccount == [Balance |-> 0, Nonce |-> 0, Builtin |-> Nil]

\* A setPrecompile that assigns a new account holding only the builtin.
parityChainSpec_setPrecompileFreshAccount(spec, address, data) ==
  LET made == IF spec.Accounts.made THEN spec.Accounts ELSE MakeMap
      a == BytesToAddress(<<address>>)
  IN  [spec EXCEPT !.Accounts =
         MapPut(made, a, [ZeroParityAccount EXCEPT !.Builtin = data])]

parityChainSpec_setPrecompile(spec, address, data) ==
  LET made == IF spec.Accounts.made THEN spec.Accounts ELSE MakeMap
      a == BytesToAddress(<<address>>)
      have == IF a \in MapKeys(made) THEN made
              ELSE MapPut(made, a, ZeroParityAccount)
  IN  [spec EXCEPT !.Accounts =
         MapPut(have, a, [have.m[a] EXCEPT !.Builtin = data])]

setByzantium(spec, num) ==
  LET n == Uint64(Deref(num))
  IN  [spec EXCEPT
         !.Engine.Ethash.Params.BlockReward =
            MapPut(@, EncodeBig(Deref(num)),
                   EncodeBigConstant(ByzantiumBlockReward)),
         !.Engine.Ethash.Params.DifficultyBombDelays =
            MapPut(@, EncodeBig(Deref(num)), EncodeUint64(3000000)),
         !.Engine.Ethash.Params.EIP100bTransition = n,
         !.Params.EIP140Transition = n,
         !.Params.EIP211Transition = n,
         !.Params.EIP214Transition = n,
         !.Params.EIP658Transition = n]

\* A setConstantinople that keeps the Byzantium reward.
setConstantinopleByzantiumReward(spec, num) ==
  LET n == Uint64(Deref(num))
  IN  [spec EXCEPT
         !.Engine.Ethash.Params.BlockReward =
            MapPut(@, EncodeBig(Deref(num)),
                   EncodeBigConstant(ByzantiumBlockReward)),
         !.Engine.Ethash.Params.DifficultyBombDelays =
            MapPut(@, EncodeBig(Deref(num)), EncodeUint64(2000000)),
         !.Params.EIP145Transition = n,
         !.Params.EIP1014Transition = n,
         !.Params.EIP1052Transition = n,
         !.Params.EIP1283Transition = n]

setConstantinople(spec, num) ==
  LET n == Uint64(Deref(num))
  IN  [spec EXCEPT
         !.Engine.Ethash.Params.BlockReward =
            MapPut(@, EncodeBig(Deref(num)),
                   EncodeBigConstant(ConstantinopleBlockReward)),
         !.Engine.Ethash.Params.DifficultyBombDelays =
            MapPut(@, EncodeBig(Deref(num)), EncodeUint64(2000000)),
         !.Params.EIP145Transition = n,
         !.Params.EIP1014Transition = n,
         !.Params.EIP1052Transition = n,
         !.Params.EIP1283Transition = n]

setConstantinopleFix(spec, num) ==
  [spec EXCEPT !.Params.EIP1283DisableTransition = Uint64(Deref(num))]

setIstanbul(spec, num) ==
  [spec EXCEPT
     !.Params.EIP1344Transition = Uint64(Deref(num)),
     !.Params.EIP1884Transition = Uint64(Deref(num)),
     !.Params.EIP2028Transition = Uint64(Deref(num)),
     !.Params.EIP1283ReenableTransition = Uint64(Deref(num))]

\* Lines 371-382: the new spec, its two schedules made, the Frontier values.
ParityFrontier(network, bootnodes) ==
  [ZeroParityChainSpec EXCEPT
     !.Name = network,
     !.Nodes = Ptr(bootnodes),
     !.Datadir = ToLower(network),
     !.Engine.Ethash.Params.MinimumDifficulty = Ptr(MinimumDifficulty),
     !.Engine.Ethash.Params.DifficultyBoundDivisor = Ptr(DifficultyBoundDivisor),
     !.Engine.Ethash.Params.DurationLimit = Ptr(DurationLimit),
     !.Engine.Ethash.Params.BlockReward =
        MapPut(MakeMap, <<"0", "x", "0">>,
               EncodeBigConstant(FrontierBlockReward)),
     !.Engine.Ethash.Params.DifficultyBombDelays = MakeMap]

\* Lines 384-396 read these four blocks without a nil check.
ParityReadsNil(genesis) ==
  \/ genesis.Config.HomesteadBlock = Nil
  \/ genesis.Config.EIP150Block = Nil
  \/ genesis.Config.EIP155Block = Nil
  \/ genesis.Config.EIP158Block = Nil

\* Lines 384-396: Homestead, Tangerine Whistle, Spurious Dragon.
ParityEarlyForks(spec, genesis) ==
  [spec EXCEPT
     !.Engine.Ethash.Params.HomesteadTransition =
        Uint64(Deref(genesis.Config.HomesteadBlock)),
     !.Params.EIP150Transition = Uint64(Deref(genesis.Config.EIP150Block)),
     !.Params.EIP155Transition = Uint64(Deref(genesis.Config.EIP155Block)),
     !.Params.EIP160Transition = Uint64(Deref(genesis.Config.EIP155Block)),
     !.Params.EIP161abcTransition = Uint64(Deref(genesis.Config.EIP158Block)),
     !.Params.EIP161dTransition = Uint64(Deref(genesis.Config.EIP158Block))]

\* Lines 398-413: one setter per fork whose block is set.
ParityLaterForks(spec, genesis) ==
  LET byzantium ==
        IF genesis.Config.ByzantiumBlock # Nil
        THEN setByzantium(spec, genesis.Config.ByzantiumBlock) ELSE spec
      constantinople ==
        IF genesis.Config.ConstantinopleBlock # Nil
        THEN setConstantinople(byzantium, genesis.Config.ConstantinopleBlock)
        ELSE byzantium
      petersburg ==
        IF genesis.Config.PetersburgBlock # Nil
        THEN setConstantinopleFix(constantinople, genesis.Config.PetersburgBlock)
        ELSE constantinople
  IN  IF genesis.Config.IstanbulBlock # Nil
      THEN setIstanbul(petersburg, genesis.Config.IstanbulBlock)
      ELSE petersburg

\* Lines 414-433: the fixed parameters and the genesis header.
ParityParams(spec, genesis) ==
  [spec EXCEPT
     !.Params.MaximumExtraDataSize = MaximumExtraDataSize,
     !.Params.MinGasLimit = MinGasLimit,
     !.Params.GasLimitBoundDivisor = GasLimitBoundDivisor,
     !.Params.NetworkID = Uint64(Deref(genesis.Config.ChainID)),
     !.Params.ChainID = Uint64(Deref(genesis.Config.ChainID)),
     !.Params.MaxCodeSize = MaxCodeSize,
     !.Params.MaxCodeSizeTransition = 0,
     !.Params.EIP98Transition = MaxInt64,
     !.Genesis.Seal.Ethereum.Nonce = EncodeNonce(genesis.Nonce),
     !.Genesis.Seal.Ethereum.MixHash = Ptr(genesis.Mixhash),  \* Mixhash[:]
     !.Genesis.Difficulty = genesis.Difficulty,
     !.Genesis.Author = genesis.Coinbase,
     !.Genesis.Timestamp = genesis.Timestamp,
     !.Genesis.ParentHash = genesis.ParentHash,
     !.Genesis.ExtraData = genesis.ExtraData,
     !.Genesis.GasLimit = genesis.GasLimit]

\* Lines 435-443: a fresh account per entry, in the order the range visits.
RECURSIVE ParityRangeAlloc(_, _, _)
ParityRangeAlloc(spec, alloc, order) ==
  IF order = <<>> THEN spec
  ELSE ParityRangeAlloc(
         [spec EXCEPT !.Accounts =
            MapPut(@, Head(order),
                   [Balance |-> Deref(alloc[Head(order)].Balance),
                    Nonce |-> alloc[Head(order)].Nonce,
                    Builtin |-> Nil])],
         alloc, Tail(order))

\* A flat pricing rule: *parityChainSpecPricing held in the Pricing interface.
ParityPricing(linear, modexp, pairing, blake) ==
  [type |-> "*parityChainSpecPricing",
   value |-> Ptr([Linear |-> linear, ModExp |-> modexp,
                  AltBnPairing |-> pairing, Blake2F |-> blake])]

ParityLinear(base, word) ==
  ParityPricing(Ptr([Base |-> base, Word |-> word]), Nil, Nil, Nil)

\* The two keys of a versioned pricing table are pointers: big.NewInt(0), a
\* number allocated for this table, and the genesis' own Istanbul block. Two
\* pointers are two keys of the Go map whatever numbers they point at.
NewIntZeroKey == [pointer |-> "big.NewInt(0)", number |-> 0]

IstanbulBlockKey(genesis) ==
  [pointer |-> "genesis.Config.IstanbulBlock",
   number |-> Deref(genesis.Config.IstanbulBlock)]

\* map[*common.Big]*parityChainSpecVersionedPricing held in the Pricing
\* interface, with the price at block 0 and the price at the Istanbul block.
ParityVersioned(genesis, before, after) ==
  [type |-> "map[*common.Big]*parityChainSpecVersionedPricing",
   value |->
     MapPut(MapPut(MakeMap, NewIntZeroKey, Ptr([Price |-> Ptr(before), Info |-> <<>>])),
            IstanbulBlockKey(genesis), Ptr([Price |-> Ptr(after), Info |-> <<>>]))]

AltBnConst(price) ==
  [AltBnConstOperationPrice |-> Ptr([Price |-> price]), AltBnPairingPrice |-> Nil]

AltBnPairing(base, pair) ==
  [AltBnConstOperationPrice |-> Nil,
   AltBnPairingPrice |-> Ptr([Base |-> base, Pair |-> pair])]

\* Lines 444-455: the writes made whatever the fork schedule is.
ParityFrontierPrecompiles ==
  << <<1, Ptr([Name |-> "ecrecover", Pricing |-> ParityLinear(3000, 0),
               ActivateAt |-> Nil])>>,
     <<2, Ptr([Name |-> "sha256", Pricing |-> ParityLinear(60, 12),
               ActivateAt |-> Nil])>>,
     <<3, Ptr([Name |-> "ripemd160", Pricing |-> ParityLinear(600, 120),
               ActivateAt |-> Nil])>>,
     <<4, Ptr([Name |-> "identity", Pricing |-> ParityLinear(15, 3),
               ActivateAt |-> Nil])>> >>

\* Lines 456-485: the writes of the Byzantium phase.
ParityByzantiumPrecompiles(genesis) ==
  << <<5, Ptr([Name |-> "modexp",
               Pricing |-> ParityPricing(Nil, Ptr([Divisor |-> 20]), Nil, Nil),
               ActivateAt |-> genesis.Config.ByzantiumBlock])>>,
     <<6, Ptr([Name |-> "alt_bn128_add",
               Pricing |-> ParityLinear(500, 0),
               ActivateAt |-> genesis.Config.ByzantiumBlock])>>,
     <<7, Ptr([Name |-> "alt_bn128_mul",
               Pricing |-> ParityLinear(40000, 0),
               ActivateAt |-> genesis.Config.ByzantiumBlock])>>,
     <<8, Ptr([Name |-> "alt_bn128_pairing",
               Pricing |-> ParityPricing(Nil, Nil,
                             Ptr([Base |-> 100000, Pair |-> 80000]), Nil),
               ActivateAt |-> genesis.Config.ByzantiumBlock])>> >>

\* Lines 490-544: the writes of the Istanbul phase.
ParityIstanbulPrecompiles(genesis) ==
  << <<6, Ptr([Name |-> "alt_bn128_add",
               Pricing |-> ParityVersioned(genesis, AltBnConst(500), AltBnConst(150)),
               ActivateAt |-> genesis.Config.ByzantiumBlock])>>,
     <<7, Ptr([Name |-> "alt_bn128_mul",
               Pricing |-> ParityVersioned(genesis, AltBnConst(40000), AltBnConst(6000)),
               ActivateAt |-> genesis.Config.ByzantiumBlock])>>,
     <<8, Ptr([Name |-> "alt_bn128_pairing",
               Pricing |-> ParityVersioned(genesis, AltBnPairing(100000, 80000),
                                           AltBnPairing(45000, 34000)),
               ActivateAt |-> genesis.Config.ByzantiumBlock])>>,
     <<9, Ptr([Name |-> "blake2_f",
               Pricing |-> ParityPricing(Nil, Nil, Nil, Ptr([GasPerRound |-> 1])),
               ActivateAt |-> genesis.Config.IstanbulBlock])>> >>

RECURSIVE ParitySetPrecompiles(_, _)
ParitySetPrecompiles(spec, writes) ==
  IF writes = <<>> THEN spec
  ELSE ParitySetPrecompiles(
         parityChainSpec_setPrecompile(spec, Head(writes)[1], Head(writes)[2]),
         Tail(writes))

\* newParityChainSpec(network, genesis, bootnodes); order is the order in
\* which the range over genesis.Alloc visits the table in this call.
newParityChainSpec(network, genesis, bootnodes, order) ==
  IF UnsupportedEngine(genesis) THEN ReturnErr(ErrUnsupportedEngine)
  ELSE IF ParityReadsNil(genesis) THEN NilDereference
  ELSE IF genesis.Config.ChainID = Nil THEN NilDereference
  ELSE IF \E a \in DOMAIN genesis.Alloc : genesis.Alloc[a].Balance = Nil
  THEN NilDereference
  ELSE
    LET forks == ParityLaterForks(
                   ParityEarlyForks(ParityFrontier(network, bootnodes), genesis),
                   genesis)
        header == ParityParams(forks, genesis)
        funded == ParityRangeAlloc([header EXCEPT !.Accounts = MakeMap],
                                   genesis.Alloc, order)
        frontier == ParitySetPrecompiles(funded, ParityFrontierPrecompiles)
        byzantium ==
          IF genesis.Config.ByzantiumBlock # Nil
          THEN ParitySetPrecompiles(frontier, ParityByzantiumPrecompiles(genesis))
          ELSE frontier
    IN  IF genesis.Config.IstanbulBlock # Nil
        THEN IF genesis.Config.ByzantiumBlock = Nil
             THEN ReturnErr(ErrIstanbulWithoutByzantium)
             ELSE ReturnSpec(
                    ParitySetPrecompiles(byzantium,
                                         ParityIstanbulPrecompiles(genesis)))
        ELSE ReturnSpec(byzantium)

----------------------------------------------------------------------------
(* Format C: PyEthereum *)

\* The builder with the two hashes of the literal exchanged.
newPyEthereumGenesisSpecHashesSwapped(network, genesis) ==
  IF genesis.Config.Ethash = Nil THEN ReturnErr(ErrUnsupportedEngine)
  ELSE ReturnSpec(
         [Nonce |-> EncodeNonce(genesis.Nonce),
          Timestamp |-> genesis.Timestamp,
          ExtraData |-> genesis.ExtraData,
          GasLimit |-> genesis.GasLimit,
          Difficulty |-> genesis.Difficulty,
          Mixhash |-> genesis.ParentHash,
          Coinbase |-> genesis.Coinbase,
          Alloc |-> genesis.Alloc,
          ParentHash |-> genesis.Mixhash])

newPyEthereumGenesisSpec(network, genesis) ==
  IF UnsupportedEngine(genesis) THEN ReturnErr(ErrUnsupportedEngine)
  ELSE ReturnSpec(
         [Nonce |-> EncodeNonce(genesis.Nonce),
          Timestamp |-> genesis.Timestamp,
          ExtraData |-> genesis.ExtraData,
          GasLimit |-> genesis.GasLimit,
          Difficulty |-> genesis.Difficulty,
          Mixhash |-> genesis.Mixhash,
          Coinbase |-> genesis.Coinbase,
          Alloc |-> genesis.Alloc,
          ParentHash |-> genesis.ParentHash])

----------------------------------------------------------------------------
(* The callers: any number of calls of the three builders on one genesis.  *)
(* last holds the most recent call, its arguments and its outcome.         *)

NoCall == [builder |-> "none", network |-> <<>>, bootnodes |-> <<>>,
           out |-> [spec |-> Nil, err |-> Nil, panic |-> FALSE]]

Init ==
  /\ genesisBlock \in Geneses
  /\ last = NoCall
  /\ calls = <<>>
  /\ objects = <<>>

CallAleth ==
  \E network \in Networks, order \in RangeOrders(genesisBlock.Alloc) :
    /\ last' = [builder |-> "aleth", network |-> network, bootnodes |-> <<>>,
                out |-> newAlethGenesisSpec(network, genesisBlock, order)]
    /\ UNCHANGED <<genesisBlock, calls, objects>>

CallParity ==
  \E network \in Networks, bootnodes \in BootnodeLists,
     order \in RangeOrders(genesisBlock.Alloc) :
    /\ last' = [builder |-> "parity", network |-> network,
                bootnodes |-> bootnodes,
                out |-> newParityChainSpec(network, genesisBlock, bootnodes, order)]
    /\ UNCHANGED <<genesisBlock, calls, objects>>

CallPyEthereum ==
  \E network \in Networks :
    /\ last' = [builder |-> "pyethereum", network |-> network,
                bootnodes |-> <<>>,
                out |-> newPyEthereumGenesisSpec(network, genesisBlock)]
    /\ UNCHANGED <<genesisBlock, calls, objects>>

Next == CallAleth \/ CallParity \/ CallPyEthereum

Spec == Init /\ [][Next]_vars

----------------------------------------------------------------------------
(* Interleaved calls: each call is one run of a builder on the shared      *)
(* genesis, taken one write of its account map at a time.                  *)

Calls == 1..MaxCalls

\* The genesis blocks the interleaved calls are run on: the four early
\* blocks all absent or all at block 0, Byzantium and Istanbul each absent
\* or set, an empty allocation table or one that funds 0x06 and 0x0101.
StepConfigs ==
  {[Ethash |-> e, ChainID |-> Ptr(1234),
    HomesteadBlock |-> early, EIP150Block |-> early, EIP155Block |-> early,
    EIP158Block |-> early, ByzantiumBlock |-> byzantium,
    ConstantinopleBlock |-> Nil, PetersburgBlock |-> Nil,
    IstanbulBlock |-> istanbul] :
     e \in {Nil, Ptr("EthashConfig")}, early \in {Nil, Ptr(0)},
     byzantium \in {Nil, Ptr(1)}, istanbul \in {Nil, Ptr(0)}}

StepAllocs == {<<>>, [a \in {6, 257} |-> GenesisAccount(a)]}

StepGeneses ==
  {[Config |-> c, Nonce |-> h.Nonce, Timestamp |-> h.Timestamp,
    ExtraData |-> h.ExtraData, GasLimit |-> h.GasLimit,
    Difficulty |-> h.Difficulty, Mixhash |-> h.Mixhash,
    Coinbase |-> h.Coinbase, Alloc |-> al, ParentHash |-> h.ParentHash] :
     c \in StepConfigs, h \in Headers, al \in StepAllocs}

NoOutcome == [spec |-> Nil, err |-> Nil, panic |-> FALSE]

\* A call not yet made. left: the entries of genesis.Alloc the range has not
\* visited; todo: the setPrecompile calls still to make.
Idle ==
  [builder |-> "none", pc |-> "idle", network |-> <<>>, bootnodes |-> <<>>,
   left |-> {}, todo |-> <<>>, out |-> NoOutcome]

Running(builder, network, bootnodes, left, todo) ==
  [builder |-> builder, pc |-> "run", network |-> network,
   bootnodes |-> bootnodes, left |-> left, todo |-> todo, out |-> NoOutcome]

Ended(call, out) ==
  [call EXCEPT !.pc = "done", !.left = {}, !.todo = <<>>, !.out = out]

\* No spec allocated yet: nothing to read, no account map.
NoObject == [Accounts |-> NilMap]

\* All calls write one package-level spec.
ReceiverShared(c) == 1

\* The object "spec" points at in call c: each call allocates its own with
\* spec := &alethGenesisSpec{...} (&parityChainSpec{...},
\* &pyEthereumGenesisSpec{...}).
Receiver(c) == c

\* The setPrecompile calls a run of newAlethGenesisSpec makes, in order.
AlethTodo(genesis) ==
  AlethFrontierPrecompiles
    \o (IF genesis.Config.ByzantiumBlock # Nil
        THEN AlethByzantiumPrecompiles(genesis) ELSE <<>>)
    \o (IF genesis.Config.IstanbulBlock # Nil
           /\ genesis.Config.ByzantiumBlock # Nil
        THEN AlethIstanbulPrecompiles(genesis) ELSE <<>>)

\* The setPrecompile calls a run of newParityChainSpec makes, in order.
ParityTodo(genesis) ==
  ParityFrontierPrecompiles
    \o (IF genesis.Config.ByzantiumBlock # Nil
        THEN ParityByzantiumPrecompiles(genesis) ELSE <<>>)
    \o (IF genesis.Config.IstanbulBlock # Nil
           /\ genesis.Config.ByzantiumBlock # Nil
        THEN ParityIstanbulPrecompiles(genesis) ELSE <<>>)

StepInit ==
  /\ genesisBlock \in StepGeneses
  /\ last = NoCall
  /\ calls = [c \in Calls |-> Idle]
  /\ objects = [c \in Calls |-> NoObject]

\* Lines 97-155: the engine test and the spec before any account is written.
BeginAleth(c) ==
  /\ calls[c].pc = "idle"
  /\ \E network \in Networks :
       IF UnsupportedEngine(genesisBlock)
       THEN /\ calls' = [calls EXCEPT
                           ![c] = Ended(Running("aleth", network, <<>>, {}, <<>>),
                                        ReturnErr(ErrUnsupportedEngine))]
            /\ UNCHANGED objects
       ELSE IF genesisBlock.Config.ChainID = Nil
       THEN /\ calls' = [calls EXCEPT
                           ![c] = Ended(Running("aleth", network, <<>>, {}, <<>>),
                                        NilDereference)]
            /\ UNCHANGED objects
       ELSE /\ calls' = [calls EXCEPT
                           ![c] = Running("aleth", network, <<>>,
                                          DOMAIN genesisBlock.Alloc,
                                          AlethTodo(genesisBlock))]
            /\ objects' = [objects EXCEPT
                             ![Receiver(c)] = AlethHeader(genesisBlock)]
  /\ UNCHANGED <<genesisBlock, last>>

\* Lines 157-159: one iteration of the range over genesis.Alloc.
AlethSetAccount(c) ==
  /\ calls[c].pc = "run" /\ calls[c].builder = "aleth"
  /\ \E a \in calls[c].left :
       /\ objects' = [objects EXCEPT
                        ![Receiver(c)] =
                           alethGenesisSpec_setAccount(@, a, genesisBlock.Alloc[a])]
       /\ calls' = [calls EXCEPT ![c].left = @ \ {a}]
  /\ UNCHANGED <<genesisBlock, last>>

\* Lines 161-196: one setPrecompile call.
AlethSetPrecompile(c) ==
  /\ calls[c].pc = "run" /\ calls[c].builder = "aleth"
  /\ calls[c].left = {} /\ calls[c].todo # <<>>
  /\ objects' = [objects EXCEPT
                   ![Receiver(c)] =
                      alethGenesisSpec_setPrecompile(@, Head(calls[c].todo)[1],
                                                     Head(calls[c].todo)[2])]
  /\ calls' = [calls EXCEPT ![c].todo = Tail(@)]
  /\ UNCHANGED <<genesisBlock, last>>

\* Lines 365-435: the engine test, the fork and header fields, the account
\* map made.
BeginParity(c) ==
  /\ calls[c].pc = "idle"
  /\ \E network \in Networks, bootnodes \in BootnodeLists :
       IF UnsupportedEngine(genesisBlock)
       THEN /\ calls' = [calls EXCEPT
                           ![c] = Ended(Running("parity", network, bootnodes,
                                                {}, <<>>),
                                        ReturnErr(ErrUnsupportedEngine))]
            /\ UNCHANGED objects
       ELSE IF ParityReadsNil(genesisBlock) \/ genesisBlock.Config.ChainID = Nil
       THEN /\ calls' = [calls EXCEPT
                           ![c] = Ended(Running("parity", network, bootnodes,
                                                {}, <<>>),
                                        NilDereference)]
            /\ UNCHANGED objects
       ELSE /\ calls' = [calls EXCEPT
                           ![c] = Running("parity", network, bootnodes,
                                          DOMAIN genesisBlock.Alloc,
                                          ParityTodo(genesisBlock))]
            /\ objects' =
                 [objects EXCEPT
                    ![Receiver(c)] =
                       [ParityParams(
                          ParityLaterForks(
                            ParityEarlyForks(ParityFrontier(network, bootnodes),
                                             genesisBlock),
                            genesisBlock),
                          genesisBlock)
                        EXCEPT !.Accounts = MakeMap]]
  /\ UNCHANGED <<genesisBlock, last>>

\* Lines 436-443: one iteration of the range over genesis.Alloc.
ParityAssignAccount(c) ==
  /\ calls[c].pc = "run" /\ calls[c].builder = "parity"
  /\ \E a \in calls[c].left :
       IF genesisBlock.Alloc[a].Balance = Nil
       THEN /\ calls' = [calls EXCEPT ![c] = Ended(@, NilDereference)]
            /\ UNCHANGED objects
       ELSE /\ objects' = [objects EXCEPT
                             ![Receiver(c)] =
                                ParityRangeAlloc(@, genesisBlock.Alloc, <<a>>)]
            /\ calls' = [calls EXCEPT ![c].left = @ \ {a}]
  /\ UNCHANGED <<genesisBlock, last>>

\* Lines 444-544: one setPrecompile call.
ParitySetPrecompile(c) ==
  /\ calls[c].pc = "run" /\ calls[c].builder = "parity"
  /\ calls[c].left = {} /\ calls[c].todo # <<>>
  /\ objects' = [objects EXCEPT
                   ![Receiver(c)] =
                      parityChainSpec_setPrecompile(@, Head(calls[c].todo)[1],
                                                    Head(calls[c].todo)[2])]
  /\ calls' = [calls EXCEPT ![c].todo = Tail(@)]
  /\ UNCHANGED <<genesisBlock, last>>

\* Lines 608-623: the engine test and the literal.
BeginPyEthereum(c) ==
  /\ calls[c].pc = "idle"
  /\ \E network \in Networks :
       IF UnsupportedEngine(genesisBlock)
       THEN /\ calls' = [calls EXCEPT
                           ![c] = Ended(Running("pyethereum", network, <<>>,
                                                {}, <<>>),
                                        ReturnErr(ErrUnsupportedEngine))]
            /\ UNCHANGED objects
       ELSE /\ calls' = [calls EXCEPT
                           ![c] = Running("pyethereum", network, <<>>, {}, <<>>)]
            /\ objects' =
                 [objects EXCEPT
                    ![Receiver(c)] =
                       Deref(newPyEthereumGenesisSpec(network, genesisBlock).spec)]
  /\ UNCHANGED <<genesisBlock, last>>

\* The end of a run: the Istanbul/Byzantium test of Format A and B (lines
\* 181-184, 486-489; no Istanbul write was made when it fails), else
\* "return spec, nil".
Return(c) ==
  /\ calls[c].pc = "run" /\ calls[c].left = {} /\ calls[c].todo = <<>>
  /\ calls' =
       [calls EXCEPT
          ![c] =
             Ended(@,
                   IF /\ calls[c].builder \in {"aleth", "parity"}
                      /\ genesisBlock.Config.IstanbulBlock # Nil
                      /\ genesisBlock.Config.ByzantiumBlock = Nil
                   THEN ReturnErr(ErrIstanbulWithoutByzantium)
                   ELSE ReturnSpec(objects[Receiver(c)]))]
  /\ UNCHANGED <<genesisBlock, last, objects>>

StepNext ==
  \E c \in Calls :
    \/ BeginAleth(c)
    \/ AlethSetAccount(c)
    \/ AlethSetPrecompile(c)
    \/ BeginParity(c)
    \/ ParityAssignAccount(c)
    \/ ParitySetPrecompile(c)
    \/ BeginPyEthereum(c)
    \/ Return(c)

StepSpec == StepInit /\ [][StepNext]_vars

\* The outcomes the call has when it runs alone, one per order of the range.
AloneOutcomes(call) ==
  IF call.builder = "aleth"
  THEN {newAlethGenesisSpec(call.network, genesisBlock, order) :
          order \in RangeOrders(genesisBlock.Alloc)}
  ELSE IF call.builder = "parity"
  THEN {newParityChainSpec(call.network, genesisBlock, call.bootnodes, order) :
          order \in RangeOrders(genesisBlock.Alloc)}
  ELSE {newPyEthereumGenesisSpec(call.network, genesisBlock)}

----------------------------------------------------------------------------

(* What the claims speak of *)

Config == genesisBlock.Config

Supported == Config.Ethash # Nil

IstanbulWithoutByzantium ==
  Config.IstanbulBlock # Nil /\ Config.ByzantiumBlock = Nil

NoForkActivated ==
  /\ Config.HomesteadBlock = Nil /\ Config.EIP150Block = Nil
  /\ Config.EIP155Block = Nil /\ Config.EIP158Block = Nil
  /\ Config.ByzantiumBlock = Nil /\ Config.ConstantinopleBlock = Nil
  /\ Config.PetersburgBlock = Nil /\ Config.IstanbulBlock = Nil

Called(builder) == last.builder = builder

\* A Document and no error.
ReturnedSpec == last.out.spec # Nil /\ last.out.err = Nil /\ ~last.out.panic

\* The error msg and no Document.
ReturnedErr(msg) ==
  last.out.spec = Nil /\ last.out.err = Ptr(msg) /\ ~last.out.panic

Document == Deref(last.out.spec)

\* The addresses of the Format A Document that carry a precompile.
AlethPrecompiled ==
  {a \in MapKeys(Document.Accounts) : Document.Accounts.m[a].Precompiled # Nil}

\* The addresses of the Format B Document that carry a builtin.
ParityBuiltins ==
  {a \in MapKeys(Document.Accounts) : Document.Accounts.m[a].Builtin # Nil}

AlethName(a) == Deref(Document.Accounts.m[a].Precompiled).Name

ParityName(a) == Deref(Document.Accounts.m[a].Builtin).Name

\* The names of the four unconditional precompiles, in each format.
AlethFourNames ==
  /\ AlethName(1) = "ecrecover" /\ AlethName(2) = "sha256"
  /\ AlethName(3) = "ripemd160" /\ AlethName(4) = "identity"

ParityFourNames ==
  /\ ParityName(1) = "ecrecover" /\ ParityName(2) = "sha256"
  /\ ParityName(3) = "ripemd160" /\ ParityName(4) = "identity"

----------------------------------------------------------------------------
\* C1: with the supported engine, Istanbul set and Byzantium absent, the
\* Format A and Format B builders return InvalidForkDependency and no
\* Document, and the Format C builder returns a Document and no error.
C1_IstanbulWithoutByzantium ==
  (Supported /\ IstanbulWithoutByzantium) =>
     /\ (Called("aleth") \/ Called("parity"))
          => ReturnedErr(ErrIstanbulWithoutByzantium)
     /\ Called("pyethereum") => ReturnedSpec

\* C2: with an unsupported engine every builder returns
\* UnsupportedConsensusEngine and no Document, whatever the fork schedule is
\* (all fork fields absent, or Istanbul set without Byzantium, included).
C2_UnsupportedEngineFirst ==
  (~Supported /\ ~Called("none")) => ReturnedErr(ErrUnsupportedEngine)

\* C2 witness: the Format B builder has refused a genesis with an unsupported
\* engine whose schedule has Istanbul without Byzantium and no Homestead.
C2_Witness ==
  /\ ~Supported /\ Called("parity")
  /\ IstanbulWithoutByzantium /\ Config.HomesteadBlock = Nil
  /\ ReturnedErr(ErrUnsupportedEngine)

\* C3: with the supported engine and no fork activated, the Format A and the
\* Format B builder each return a Document whose precompiles are exactly the
\* four unconditional ones at 0x01..0x04, and the Format C builder returns a
\* Document with no precompile entry.
C3_NoForksFourPrecompiles ==
  (Supported /\ NoForkActivated) =>
     /\ Called("aleth") =>
          /\ ReturnedSpec
          /\ AlethPrecompiled = 1..4
          /\ AlethFourNames
     /\ Called("parity") =>
          /\ ReturnedSpec
          /\ ParityBuiltins = 1..4
          /\ ParityFourNames
     /\ Called("pyethereum") =>
          /\ ReturnedSpec
          /\ \A a \in DOMAIN Document.Alloc :
               DOMAIN Document.Alloc[a] = {"Balance", "Nonce"}

\* C4: every call ends in a Document with no error, in
\* UnsupportedConsensusEngine with no Document or in InvalidForkDependency
\* with no Document; with the supported engine and no Istanbul-without-
\* Byzantium schedule every builder returns a Document, whichever of the other
\* fork fields are absent.
C4_ThreeOutcomes ==
  ~Called("none") =>
     /\ \/ ReturnedSpec
        \/ ReturnedErr(ErrUnsupportedEngine)
        \/ ReturnedErr(ErrIstanbulWithoutByzantium)
     /\ (Supported /\ ~IstanbulWithoutByzantium) => ReturnedSpec

----------------------------------------------------------------------------
(* The two phases of precompile writes *)

BothForksSet == Config.ByzantiumBlock # Nil /\ Config.IstanbulBlock # Nil

WrittenBy(writes) == {writes[i][1] : i \in DOMAIN writes}

DefinitionBy(writes, a) ==
  writes[CHOOSE i \in DOMAIN writes : writes[i][1] = a][2]

FrontierWrites ==
  IF Called("aleth") THEN AlethFrontierPrecompiles ELSE ParityFrontierPrecompiles

ByzantiumWrites ==
  IF Called("aleth") THEN AlethByzantiumPrecompiles(genesisBlock)
  ELSE ParityByzantiumPrecompiles(genesisBlock)

IstanbulWrites ==
  IF Called("aleth") THEN AlethIstanbulPrecompiles(genesisBlock)
  ELSE ParityIstanbulPrecompiles(genesisBlock)

WrittenByBothPhases == WrittenBy(ByzantiumWrites) \cap WrittenBy(IstanbulWrites)

\* The precompile definition the returned Document holds at address a.
FinalDefinition(a) ==
  IF Called("aleth") THEN Document.Accounts.m[a].Precompiled
  ELSE Document.Accounts.m[a].Builtin

\* An address both phases wrote holds the Istanbul-phase definition, which is
\* not the Byzantium-phase one; any other precompile address holds the
\* definition of the one phase that wrote it.
LaterPhaseWins ==
  /\ 1..9 \subseteq MapKeys(Document.Accounts)
  /\ \A a \in WrittenByBothPhases :
       /\ FinalDefinition(a) = DefinitionBy(IstanbulWrites, a)
       /\ FinalDefinition(a) # DefinitionBy(ByzantiumWrites, a)
  /\ \A a \in (1..9) \ WrittenByBothPhases :
       FinalDefinition(a) =
         IF a \in WrittenBy(IstanbulWrites) THEN DefinitionBy(IstanbulWrites, a)
         ELSE IF a \in WrittenBy(ByzantiumWrites)
              THEN DefinitionBy(ByzantiumWrites, a)
              ELSE DefinitionBy(FrontierWrites, a)
  /\ Called("aleth") =>
       /\ Deref(FinalDefinition(6)).Linear = Nil
       /\ Deref(FinalDefinition(7)).Linear = Nil
  /\ Called("parity") =>
       /\ Deref(FinalDefinition(6)).Pricing.type # "*parityChainSpecPricing"
       /\ Deref(FinalDefinition(7)).Pricing.type # "*parityChainSpecPricing"

TieBreakCase ==
  /\ Supported /\ BothForksSet
  /\ Called("aleth") \/ Called("parity")
  /\ ReturnedSpec

\* C5 as stated: with Byzantium and Istanbul both set, in the Format A and
\* Format B Documents the addresses written by both phases are exactly 0x06
\* and 0x07 and carry the Istanbul-phase definition; every other precompile
\* address carries the definition of the only phase that wrote it.
C5_TieBreakTwoAddresses ==
  TieBreakCase => (LaterPhaseWins /\ WrittenByBothPhases = {6, 7})

\* C5 amended: as above, but the addresses written by both phases are 0x06
\* and 0x07 in Format A and 0x06, 0x07 and 0x08 (the pairing contract too) in
\* Format B.
C5_TieBreakAmended ==
  TieBreakCase =>
     /\ LaterPhaseWins
     /\ Called("aleth") => WrittenByBothPhases = {6, 7}
     /\ Called("parity") => WrittenByBothPhases = {6, 7, 8}

\* C5 witness: a Format B Document of a schedule whose Istanbul block is
\* numerically before its Byzantium block, where the two phases both wrote
\* 0x06, 0x07 and 0x08 and 0x08 holds the Istanbul-phase pairing prices.
C5_Witness ==
  /\ TieBreakCase /\ Called("parity")
  /\ Config.ByzantiumBlock = Ptr(1) /\ Config.IstanbulBlock = Ptr(0)
  /\ WrittenByBothPhases = {6, 7, 8}
  /\ FinalDefinition(8) = DefinitionBy(IstanbulWrites, 8)

----------------------------------------------------------------------------
\* C6: idempotence. A call of a builder that follows a call of the same
\* builder with the same genesis, network name and bootnode list has the same
\* outcome, Document included, whatever order the range over the allocation
\* table takes in either call.
C6_Idempotent ==
  [][(/\ ~Called("none")
      /\ last'.builder = last.builder
      /\ last'.network = last.network
      /\ last'.bootnodes = last.bootnodes
      /\ genesisBlock' = genesisBlock) => last'.out = last.out]_vars

\* C6 witness: a builder has returned a Document for a genesis whose
\* allocation table has two entries, which a range can visit in two orders.
C6_Witness ==
  /\ Called("aleth") /\ ReturnedSpec
  /\ DOMAIN genesisBlock.Alloc = {1, 257}

----------------------------------------------------------------------------
\* C7: with the supported engine and Byzantium block b and Istanbul block i
\* both set, the Format A Document has, for every allocation entry, an account
\* at its address with its balance and nonce, a precompile named modexp at
\* 0x05 starting at block b and a precompile named blake2_compression at 0x09
\* starting at block i.
C7_AlethAccountsAndPrecompiles ==
  (Supported /\ BothForksSet /\ Called("aleth")) =>
     /\ ReturnedSpec
     /\ \A a \in DOMAIN genesisBlock.Alloc :
          /\ a \in MapKeys(Document.Accounts)
          /\ Document.Accounts.m[a].Balance = genesisBlock.Alloc[a].Balance
          /\ Document.Accounts.m[a].Nonce = genesisBlock.Alloc[a].Nonce
     /\ {5, 9} \subseteq AlethPrecompiled
     /\ AlethName(5) = "modexp"
     /\ Deref(Document.Accounts.m[5].Precompiled).StartingBlock
          = Config.ByzantiumBlock
     /\ AlethName(9) = "blake2_compression"
     /\ Deref(Document.Accounts.m[9].Precompiled).StartingBlock
          = Config.IstanbulBlock

\* C7 witness: a Format A Document for Byzantium at block 0, Istanbul at
\* block 1 and a funded address 0x01.
C7_Witness ==
  /\ Supported /\ Called("aleth") /\ ReturnedSpec
  /\ Config.ByzantiumBlock = Ptr(0) /\ Config.IstanbulBlock = Ptr(1)
  /\ 1 \in DOMAIN genesisBlock.Alloc
  /\ Document.Accounts.m[1].Balance = Ptr(100)

----------------------------------------------------------------------------
(* The two schedules of the Format B Document *)

BlockReward == Document.Engine.Ethash.Params.BlockReward.m

DifficultyBombDelays == Document.Engine.Ethash.Params.DifficultyBombDelays.m

BlockZero == <<"0", "x", "0">>

ByzantiumKey == EncodeBig(Deref(Config.ByzantiumBlock))

ConstantinopleKey == EncodeBig(Deref(Config.ConstantinopleBlock))

\* The keys of the activated major forks, the forks that set a reward and a
\* bomb delay.
MajorForkKeys ==
  (IF Config.ByzantiumBlock # Nil THEN {ByzantiumKey} ELSE {})
    \cup (IF Config.ConstantinopleBlock # Nil THEN {ConstantinopleKey} ELSE {})

ActivatedMajorForks ==
  (IF Config.ByzantiumBlock # Nil THEN {"Byzantium"} ELSE {})
    \cup (IF Config.ConstantinopleBlock # Nil THEN {"Constantinople"} ELSE {})

\* C8 as stated: the reward map and the bomb-delay map have the same keys,
\* both hold the base entry of block 0, and each holds exactly one entry per
\* activated major fork, keyed by its block and holding its values.
C8_ParallelSchedules ==
  (Called("parity") /\ ReturnedSpec) =>
     /\ DOMAIN BlockReward = DOMAIN DifficultyBombDelays
     /\ BlockZero \in DOMAIN BlockReward
     /\ BlockZero \in DOMAIN DifficultyBombDelays
     /\ BlockReward[BlockZero] = EncodeBigConstant(FrontierBlockReward)
     /\ Cardinality(DOMAIN BlockReward) = 1 + Cardinality(ActivatedMajorForks)
     /\ Cardinality(DOMAIN DifficultyBombDelays)
          = 1 + Cardinality(ActivatedMajorForks)
     /\ Config.ByzantiumBlock # Nil =>
          /\ ByzantiumKey \in DOMAIN BlockReward
          /\ BlockReward[ByzantiumKey] = EncodeBigConstant(ByzantiumBlockReward)
          /\ DifficultyBombDelays[ByzantiumKey] = EncodeUint64(3000000)
     /\ Config.ConstantinopleBlock # Nil =>
          /\ ConstantinopleKey \in DOMAIN BlockReward
          /\ BlockReward[ConstantinopleKey]
               = EncodeBigConstant(ConstantinopleBlockReward)
          /\ DifficultyBombDelays[ConstantinopleKey] = EncodeUint64(2000000)

\* C8 amended: the keys of the bomb-delay map are exactly the activation
\* blocks of the activated major forks (Byzantium, Constantinople), with no
\* base entry, and the keys of the reward map are those and block 0. At the
\* block of an activated major fork both maps hold that fork's values, except
\* that Constantinople's values stand where both forks activate at the same
\* block; the reward of block 0 is the base reward unless a major fork
\* activates at block 0.
C8_SchedulesAmended ==
  (Called("parity") /\ ReturnedSpec) =>
     /\ DOMAIN DifficultyBombDelays = MajorForkKeys
     /\ DOMAIN BlockReward = {BlockZero} \cup MajorForkKeys
     /\ \A k \in DOMAIN BlockReward :
          BlockReward[k] =
            IF Config.ConstantinopleBlock # Nil /\ k = ConstantinopleKey
            THEN EncodeBigConstant(ConstantinopleBlockReward)
            ELSE IF Config.ByzantiumBlock # Nil /\ k = ByzantiumKey
                 THEN EncodeBigConstant(ByzantiumBlockReward)
                 ELSE EncodeBigConstant(FrontierBlockReward)
     /\ \A k \in DOMAIN DifficultyBombDelays :
          DifficultyBombDelays[k] =
            IF Config.ConstantinopleBlock # Nil /\ k = ConstantinopleKey
            THEN <<"0", "x", "1", "e", "8", "4", "8", "0">>
            ELSE <<"0", "x", "2", "d", "c", "6", "c", "0">>

\* C8 witness: a Format B Document whose Byzantium and Constantinople forks
\* both activate at block 0.
C8_Witness ==
  /\ Called("parity") /\ ReturnedSpec
  /\ Config.ByzantiumBlock = Ptr(0) /\ Config.ConstantinopleBlock = Ptr(0)
  /\ DOMAIN BlockReward = {BlockZero}

----------------------------------------------------------------------------
(* The pricing of the Format B builtins *)

Pricing(a) == Deref(Document.Accounts.m[a].Builtin).Pricing

IsVersioned(a) ==
  Pricing(a).type = "map[*common.Big]*parityChainSpecVersionedPricing"

IsFlat(a) == Pricing(a).type = "*parityChainSpecPricing"

\* The entries of the versioned table of a: its keys and the price at each.
PricingTable(a) == Pricing(a).value.m

PriceAt(a, k) == Deref(Deref(PricingTable(a)[k]).Price)

PreForkPrice(a) ==
  IF a = 6 THEN AltBnConst(500)
  ELSE IF a = 7 THEN AltBnConst(40000) ELSE AltBnPairing(100000, 80000)

PostForkPrice(a) ==
  IF a = 6 THEN AltBnConst(150)
  ELSE IF a = 7 THEN AltBnConst(6000) ELSE AltBnPairing(45000, 34000)

\* C9: with Byzantium and Istanbul both set, exactly two builtins of the
\* Format B Document carry a versioned pricing table and all others a flat
\* rule; each table holds exactly the entry of block 0 with the pre-fork
\* price and the entry of the Istanbul block with the post-fork price, with at
\* most one entry per block number.
C9_VersionedPricing ==
  (Supported /\ BothForksSet /\ Called("parity") /\ ReturnedSpec) =>
     /\ Cardinality({a \in ParityBuiltins : IsVersioned(a)}) = 2
     /\ \A a \in ParityBuiltins : IsVersioned(a) \/ IsFlat(a)
     /\ \A a \in ParityBuiltins : IsVersioned(a) =>
          /\ {k.number : k \in DOMAIN PricingTable(a)}
               = {0, Deref(Config.IstanbulBlock)}
          /\ \E k \in DOMAIN PricingTable(a) :
               k.number = 0 /\ PriceAt(a, k) = PreForkPrice(a)
          /\ \E k \in DOMAIN PricingTable(a) :
               /\ k.number = Deref(Config.IstanbulBlock)
               /\ PriceAt(a, k) = PostForkPrice(a)
          /\ \A k1, k2 \in DOMAIN PricingTable(a) :
               k1.number = k2.number => k1 = k2

----------------------------------------------------------------------------
\* C10: in every Document the Format A builder returns the DAO fork block is
\* 0, the starting account nonce is 0, the tie-breaking-gas flag is false and
\* the future-block flag is false, whatever the genesis is.
C10_AlethFixedLiterals ==
  (Called("aleth") /\ ReturnedSpec) =>
     /\ Document.Params.DaoHardforkBlock = 0
     /\ Document.Params.AccountStartNonce = 0
     /\ Document.Params.TieBreakingGas = FALSE
     /\ Document.Params.AllowFutureBlocks = FALSE

\* C10 witness: a Format A Document of a genesis with forks set at block 0
\* and at block 1 and a non-empty allocation table.
C10_Witness ==
  /\ Called("aleth") /\ ReturnedSpec
  /\ Config.HomesteadBlock = Ptr(0) /\ Config.ConstantinopleBlock = Ptr(1)
  /\ DOMAIN genesisBlock.Alloc # {}
  /\ Document.Params.DaoHardforkBlock = 0

----------------------------------------------------------------------------
(* The disabled EIP98 transition of the Format B Document *)

\* The hexadecimal digits of the largest value of a common.Uint64 field,
\* 2^64 - 1.
LargestUint64 == <<15, 15, 15, 15, 15, 15, 15, 15, 15, 15, 15, 15, 15, 15, 15, 15>>

\* C11 as stated: in every Document the Format B builder returns, the EIP98
\* transition is the largest block number an unsigned 64-bit field can hold.
C11_Eip98LargestUint64 ==
  (Called("parity") /\ ReturnedSpec) =>
     Document.Params.EIP98Transition = LargestUint64

\* C11 amended: in every Document the Format B builder returns, the EIP98
\* transition is 2^63 - 1 (0x7fffffffffffffff), the largest signed 64-bit
\* integer, whatever the genesis is.
C11_Eip98LargestInt64 ==
  (Called("parity") /\ ReturnedSpec) =>
     Document.Params.EIP98Transition
       = <<7, 15, 15, 15, 15, 15, 15, 15, 15, 15, 15, 15, 15, 15, 15, 15>>

\* C11 witness: a Format B Document of a genesis with Istanbul at block 1,
\* whose EIP98 transition starts with the digit 7.
C11_Witness ==
  /\ Called("parity") /\ ReturnedSpec
  /\ Config.IstanbulBlock = Ptr(1) /\ Config.ByzantiumBlock = Ptr(0)
  /\ Document.Params.EIP98Transition[1] = 7
  /\ Len(Document.Params.EIP98Transition) = 16

----------------------------------------------------------------------------
(* The Format C Document *)

\* The fork fields of params.ChainConfig.
ForkFields ==
  {"HomesteadBlock", "EIP150Block", "EIP155Block", "EIP158Block",
   "ByzantiumBlock", "ConstantinopleBlock", "PetersburgBlock", "IstanbulBlock"}

\* C12: with the supported engine the Format C Document has exactly the
\* addresses of the genesis allocation table, each with its balance and nonce,
\* its eight header fields are those of the genesis (the nonce as the eight
\* bytes that spell it), and it has no fork field and no precompile entry,
\* whatever the fork schedule is.
C12_PyEthereumContent ==
  (Supported /\ Called("pyethereum")) =>
     /\ ReturnedSpec
     /\ DOMAIN Document.Alloc = DOMAIN genesisBlock.Alloc
     /\ \A a \in DOMAIN genesisBlock.Alloc :
          /\ Document.Alloc[a].Balance = genesisBlock.Alloc[a].Balance
          /\ Document.Alloc[a].Nonce = genesisBlock.Alloc[a].Nonce
          /\ DOMAIN Document.Alloc[a] = DOMAIN genesisBlock.Alloc[a]
     /\ Len(Document.Nonce) = 8
     /\ BytesValue(Document.Nonce) = genesisBlock.Nonce
     /\ Document.Timestamp = genesisBlock.Timestamp
     /\ Document.ExtraData = genesisBlock.ExtraData
     /\ Document.GasLimit = genesisBlock.GasLimit
     /\ Document.Difficulty = genesisBlock.Difficulty
     /\ Document.Mixhash = genesisBlock.Mixhash
     /\ Document.Coinbase = genesisBlock.Coinbase
     /\ Document.ParentHash = genesisBlock.ParentHash
     /\ DOMAIN Document =
          {"Nonce", "Timestamp", "ExtraData", "GasLimit", "Difficulty",
           "Mixhash", "Coinbase", "Alloc", "ParentHash"}
     /\ DOMAIN Document \cap (ForkFields \cup {"Config", "Params", "Accounts"})
          = {}

\* C12 witness: a Format C Document of a genesis with Byzantium and Istanbul
\* set that funds the address 0x06, which Format A and B make a precompile.
C12_Witness ==
  /\ Supported /\ Called("pyethereum") /\ ReturnedSpec
  /\ BothForksSet
  /\ DOMAIN Document.Alloc = {6, 257}
  /\ Document.Alloc[6].Balance = Ptr(7)

----------------------------------------------------------------------------
(* Interleaved calls on one genesis *)

\* C13: in every step of any number of interleaved builder calls the genesis
\* is left as it was, the spec a call builds changes only in a step of that
\* call, and a call that has ended has the outcome it has when it runs alone
\* (which is one outcome, whatever the order of its range).
C13_ConcurrentCalls ==
  [][/\ genesisBlock' = genesisBlock
     /\ \A c \in Calls : calls'[c] = calls[c] => objects'[c] = objects[c]
     /\ \A c \in Calls :
          calls'[c].pc = "done" => AloneOutcomes(calls'[c]) = {calls'[c].out}
    ]_vars

\* C13 witness: a Format A call that has returned a Document with accounts
\* and precompiles while a Format B call on the same genesis is in the middle
\* of its own writes.
C13_Witness ==
  /\ calls[1].builder = "aleth" /\ calls[1].pc = "done"
  /\ calls[1].out.spec # Nil
  /\ {6, 9, 257} \subseteq MapKeys(Deref(calls[1].out.spec).Accounts)
  /\ calls[2].builder = "parity" /\ calls[2].pc = "run"
  /\ calls[2].left = {} /\ Len(calls[2].todo) = 3
  /\ {6, 257} \subseteq MapKeys(objects[2].Accounts)

----------------------------------------------------------------------------
(* The fork fields of the Documents *)

\* The Format A field derived from each fork (EIP155 has none).
AlethForkField ==
  [HomesteadBlock |-> "HomesteadForkBlock",
   EIP150Block |-> "EIP150ForkBlock",
   EIP158Block |-> "EIP158ForkBlock",
   ByzantiumBlock |-> "ByzantiumForkBlock",
   ConstantinopleBlock |-> "ConstantinopleForkBlock",
   PetersburgBlock |-> "ConstantinopleFixForkBlock",
   IstanbulBlock |-> "IstanbulForkBlock"]

\* The values of the Format B transition fields derived from each fork.
ParityForkValues(fork) ==
  LET engine == Document.Engine.Ethash.Params
      params == Document.Params
  IN  CASE fork = "HomesteadBlock" -> {engine.HomesteadTransition}
        [] fork = "EIP150Block" -> {params.EIP150Transition}
        [] fork = "EIP155Block" ->
             {params.EIP155Transition, params.EIP160Transition}
        [] fork = "EIP158Block" ->
             {params.EIP161abcTransition, params.EIP161dTransition}
        [] fork = "ByzantiumBlock" ->
             {engine.EIP100bTransition, params.EIP140Transition,
              params.EIP211Transition, params.EIP214Transition,
              params.EIP658Transition}
        [] fork = "ConstantinopleBlock" ->
             {params.EIP145Transition, params.EIP1014Transition,
              params.EIP1052Transition, params.EIP1283Transition}
        [] fork = "PetersburgBlock" -> {params.EIP1283DisableTransition}
        [] fork = "IstanbulBlock" ->
             {params.EIP1344Transition, params.EIP1884Transition,
              params.EIP2028Transition, params.EIP1283ReenableTransition}

\* A fork set at block n: every field derived from it holds n.
PresentForksResolved ==
  /\ (Called("aleth") /\ ReturnedSpec) =>
       \A fork \in DOMAIN AlethForkField :
         Config[fork] # Nil =>
           Document.Params[AlethForkField[fork]] = Ptr(Deref(Config[fork]))
  /\ (Called("parity") /\ ReturnedSpec) =>
       \A fork \in ForkFields :
         Config[fork] # Nil => ParityForkValues(fork) = {Deref(Config[fork])}

\* An absent fork in Format A: the field is nil, which "omitempty" leaves out.
AlethAbsentForksOmitted ==
  (Called("aleth") /\ ReturnedSpec) =>
     \A fork \in DOMAIN AlethForkField :
       Config[fork] = Nil => Document.Params[AlethForkField[fork]] = Nil

\* An absent fork in Format B: no field derived from it holds a block number.
ParityAbsentForksInactive ==
  (Called("parity") /\ ReturnedSpec) =>
     \A fork \in ForkFields :
       Config[fork] = Nil => ParityForkValues(fork) \cap Nat = {}

\* C14: in the Format A and Format B Documents every field derived from a
\* fork set at block n holds n (the five Byzantium fields of Format B too),
\* and no field derived from an absent fork marks it active at any block:
\* Format A omits the field, Format B holds no block number (0 included).
C14_ForkResolution ==
  PresentForksResolved /\ AlethAbsentForksOmitted /\ ParityAbsentForksInactive

----------------------------------------------------------------------------
(* The account map during one build *)

\* The precompile entry of an account of either format (nil when none).
PrecompileOf(account) ==
  IF "Precompiled" \in DOMAIN account THEN account.Precompiled
  ELSE account.Builtin

\* Call c is a Format A or B build that takes this step.
BuildStep(c) ==
  /\ calls[c].pc = "run" /\ calls[c].builder \in {"aleth", "parity"}
  /\ calls'[c] # calls[c]

\* The step of call c is a setPrecompile call.
UpsertStep(c) == BuildStep(c) /\ calls[c].left = {} /\ calls[c].todo # <<>>

\* setPrecompile of the format on a spec whose map is not yet created.
UpsertOnNilMap(builder, address, data) ==
  IF builder = "aleth"
  THEN alethGenesisSpec_setPrecompile(AlethHeader(genesisBlock), address,
                                      data).Accounts
  ELSE parityChainSpec_setPrecompile(ZeroParityChainSpec, address,
                                     data).Accounts

\* C15: in every step of a Format A or Format B build the account map loses
\* no address and an address with a precompile entry keeps having one; a
\* write to the not yet created map creates it with exactly that address;
\* setPrecompile puts the new entry as a whole in place of the old one and
\* changes nothing else.
C15_RegistryOnlyGrows ==
  [][\A c \in Calls :
       BuildStep(c) =>
         LET before == objects[c].Accounts
             after == objects'[c].Accounts
         IN  /\ MapKeys(before) \subseteq MapKeys(after)
             /\ \A a \in MapKeys(before) :
                  PrecompileOf(before.m[a]) # Nil => PrecompileOf(after.m[a]) # Nil
             /\ (~before.made /\ after # before) =>
                  after.made /\ Cardinality(MapKeys(after)) = 1
             /\ UpsertStep(c) =>
                  LET a == Head(calls[c].todo)[1]
                      data == Head(calls[c].todo)[2]
                  IN  /\ MapKeys(after) = MapKeys(before) \cup {a}
                      /\ PrecompileOf(after.m[a]) = data
                      /\ \A x \in MapKeys(before) \ {a} : after.m[x] = before.m[x]
                      /\ LET new == UpsertOnNilMap(calls[c].builder, a, data)
                         IN  /\ new.made /\ MapKeys(new) = {a}
                             /\ PrecompileOf(new.m[a]) = data
    ]_vars

\* C15 witness: a Format A build that has made all its writes: the map holds
\* the funded addresses and 0x01..0x09, and 0x06 holds the Istanbul entry
\* that replaced the Byzantium one.
C15_Witness ==
  /\ calls[1].builder = "aleth" /\ calls[1].pc = "run"
  /\ calls[1].left = {} /\ calls[1].todo = <<>>
  /\ MapKeys(objects[1].Accounts) = (1..9) \cup {257}
  /\ Deref(PrecompileOf(objects[1].Accounts.m[6])).Name = "alt_bn128_G1_add"
  /\ Deref(PrecompileOf(objects[1].Accounts.m[6])).Linear = Nil
  /\ genesisBlock.Config.ByzantiumBlock # Nil

----------------------------------------------------------------------------
(* Funded precompile addresses *)

\* The setPrecompile calls the build of the returned Document made, in order.
BuildWrites ==
  FrontierWrites
    \o (IF Config.ByzantiumBlock # Nil THEN ByzantiumWrites ELSE <<>>)
    \o (IF BothForksSet THEN IstanbulWrites ELSE <<>>)

SetPrecompileOn(spec, address, data) ==
  IF Called("aleth") THEN alethGenesisSpec_setPrecompile(spec, address, data)
  ELSE parityChainSpec_setPrecompile(spec, address, data)

\* The balance the Document holds for the allocation entry at a: Format A
\* keeps the pointer, Format B the number it points at.
ModelBalance(a) ==
  IF Called("aleth") THEN genesisBlock.Alloc[a].Balance
  ELSE Deref(genesisBlock.Alloc[a].Balance)

\* The balance of an account no allocation entry wrote.
ZeroBalance == IF Called("aleth") THEN Nil ELSE 0

\* setPrecompile on the Document, at an address that holds an account: the
\* balance and nonce there stay, the entry is the new one, no other address
\* changes.
UpsertFrame ==
  \A i \in DOMAIN BuildWrites :
    LET a == BuildWrites[i][1]
        data == BuildWrites[i][2]
        before == Document.Accounts
        after == SetPrecompileOn(Document, a, data).Accounts
    IN  /\ a \in MapKeys(before)
        /\ MapKeys(after) = MapKeys(before)
        /\ after.m[a].Balance = before.m[a].Balance
        /\ after.m[a].Nonce = before.m[a].Nonce
        /\ PrecompileOf(after.m[a]) = data
        /\ \A x \in MapKeys(before) \ {a} : after.m[x] = before.m[x]

\* Every funded address among these is one account with the balance and
\* nonce of the genesis and a precompile definition.
FundedAndPrecompiled(addresses) ==
  \A a \in (DOMAIN genesisBlock.Alloc) \cap addresses :
    /\ a \in MapKeys(Document.Accounts)
    /\ Document.Accounts.m[a].Balance = ModelBalance(a)
    /\ Document.Accounts.m[a].Nonce = genesisBlock.Alloc[a].Nonce
    /\ PrecompileOf(Document.Accounts.m[a]) # Nil

\* An address that is only a precompile has the zero balance and nonce.
PrecompileOnlyUnfunded ==
  \A a \in WrittenBy(BuildWrites) \ DOMAIN genesisBlock.Alloc :
    /\ Document.Accounts.m[a].Balance = ZeroBalance
    /\ Document.Accounts.m[a].Nonce = 0
    /\ PrecompileOf(Document.Accounts.m[a]) # Nil

UpsertCase == (Called("aleth") \/ Called("parity")) /\ ReturnedSpec

\* C16 as stated: setPrecompile keeps the balance and nonce of an account and
\* changes no other address, so in the Format A and B Documents every funded
\* address among 0x01..0x09 is one account with the balance and nonce of the
\* genesis and the precompile definition, and an address that is only a
\* precompile has no balance from the genesis.
C16_UpsertFrame ==
  UpsertCase =>
     UpsertFrame /\ FundedAndPrecompiled(1..9) /\ PrecompileOnlyUnfunded

\* C16 amended: the same for every funded address at which the build of that
\* genesis writes a precompile (0x01..0x04 always, 0x05..0x08 with Byzantium
\* set, 0x09 with Byzantium and Istanbul set); a funded address among
\* 0x01..0x09 at which it writes none is an account with the balance and
\* nonce of the genesis and no precompile definition.
C16_UpsertFrameWritten ==
  UpsertCase =>
     /\ UpsertFrame
     /\ FundedAndPrecompiled(WrittenBy(BuildWrites))
     /\ PrecompileOnlyUnfunded
     /\ \A a \in ((DOMAIN genesisBlock.Alloc) \cap (1..9)) \ WrittenBy(BuildWrites) :
          /\ Document.Accounts.m[a].Balance = ModelBalance(a)
          /\ Document.Accounts.m[a].Nonce = genesisBlock.Alloc[a].Nonce
          /\ PrecompileOf(Document.Accounts.m[a]) = Nil

\* C16 witness: a Format B Document of a genesis without Byzantium that funds
\* 0x01 and 0x06: 0x01 has its balance and the ecrecover builtin, 0x06 its
\* balance and no builtin, 0x02 a builtin and balance 0.
C16_Witness ==
  /\ Called("parity") /\ ReturnedSpec
  /\ DOMAIN genesisBlock.Alloc = {1, 6}
  /\ Config.ByzantiumBlock = Nil
  /\ Document.Accounts.m[1].Balance = 100
  /\ ParityName(1) = "ecrecover"
  /\ Document.Accounts.m[6].Balance = 7
  /\ Document.Accounts.m[6].Builtin = Nil
  /\ Document.Accounts.m[2].Balance = 0 /\ ParityName(2) = "sha256"

=============================================================================
